---- MODULE Spec2Model ----
(***************************************************************************)
(* SmartBrowserDetection: the classification engine of                     *)
(* smart-browser-detection.  The host (navigator, window, document) is     *)
(* the environment; one SmartBrowserDetection instance with its cache is   *)
(* the program state.  JavaScript strings are TLA+ strings, a confidence   *)
(* c of the program is the integer 100*c (0.95 is 95).                     *)
(***************************************************************************)
EXTENDS Integers, Sequences, FiniteSets, TLC

(***************************************************************************)
(* JavaScript strings                                                      *)
(***************************************************************************)

\* The value of an absent host property (navigator.userAgent === undefined).
Undefined == "<undefined>"

UpperCase == <<"A","B","C","D","E","F","G","H","I","J","K","L","M",
               "N","O","P","Q","R","S","T","U","V","W","X","Y","Z">>
LowerCase == <<"a","b","c","d","e","f","g","h","i","j","k","l","m",
               "n","o","p","q","r","s","t","u","v","w","x","y","z">>
Digits == {"0","1","2","3","4","5","6","7","8","9"}

CharAt(s, i) == SubSeq(s, i, i)

LowerChar(c) ==
  IF \E i \in 1..26 : UpperCase[i] = c
  THEN LowerCase[CHOOSE i \in 1..26 : UpperCase[i] = c]
  ELSE c

\* String.prototype.toLowerCase, character by character.
RECURSIVE toLowerCaseImpl(_)
toLowerCaseImpl(s) ==
  IF Len(s) = 0 THEN ""
  ELSE IF Len(s) = 1 THEN LowerChar(s)
  ELSE toLowerCaseImpl(SubSeq(s, 1, Len(s) \div 2))
       \o toLowerCaseImpl(SubSeq(s, Len(s) \div 2 + 1, Len(s)))

\* String.prototype.includes: needle occurs somewhere in hay.
includesImpl(hay, needle) ==
  \E i \in 1..(Len(hay) - Len(needle) + 1) :
    SubSeq(hay, i, i + Len(needle) - 1) = needle

(***************************************************************************)
(* The host signals                                                        *)
(***************************************************************************)

UA_ChromeDesktop ==
  "Mozilla/5.0 (Windows NT 10.0; Win64; x64) AppleWebKit/537.36 (KHTML, like Gecko) Chrome/120.0.0.0 Safari/537.36"
UA_FirefoxDesktop ==
  "Mozilla/5.0 (Windows NT 10.0; Win64; x64; rv:120.0) Gecko/20100101 Firefox/120.0"
UA_SafariDesktop ==
  "Mozilla/5.0 (Macintosh; Intel Mac OS X 10_15_7) AppleWebKit/605.1.15 (KHTML, like Gecko) Version/17.0 Safari/605.1.15"
UA_EdgeDesktop ==
  "Mozilla/5.0 (Windows NT 10.0; Win64; x64) AppleWebKit/537.36 (KHTML, like Gecko) Chrome/120.0.0.0 Safari/537.36 Edg/120.0.0.0"
UA_AndroidChrome ==
  "Mozilla/5.0 (Linux; Android 13; SM-G991B) AppleWebKit/537.36 (KHTML, like Gecko) Chrome/120.0.0.0 Mobile Safari/537.36"
UA_iPhoneSafari ==
  "Mozilla/5.0 (iPhone; CPU iPhone OS 17_0 like Mac OS X) AppleWebKit/605.1.15 (KHTML, like Gecko) Version/17.0 Mobile/15E148 Safari/604.1"
UA_iPadSafari ==
  "Mozilla/5.0 (iPad; CPU OS 17_0 like Mac OS X) AppleWebKit/605.1.15 (KHTML, like Gecko) Version/17.0 Mobile/15E148 Safari/604.1"
UA_FirefoxMobile ==
  "Mozilla/5.0 (Android 13; Mobile; rv:120.0) Gecko/120.0 Firefox/120.0"
UA_AndroidCriOS ==
  "Mozilla/5.0 (Linux; Android 13; SM-G991B) AppleWebKit/537.36 (KHTML, like Gecko) Chrome/120.0.0.0 CriOS/120.0.6099.119 Mobile Safari/537.36"
UA_OperaDesktop ==
  "Mozilla/5.0 (X11; Ubuntu; Linux x86_64) AppleWebKit/537.36 (KHTML, like Gecko) Chrome/120.0.0.0 Safari/537.36 OPR/106.0.0.0"
UA_IE11 ==
  "Mozilla/5.0 (Windows NT 6.1; WOW64; Trident/7.0; rv:11.0) like Gecko"
UA_EdgeLegacy ==
  "Mozilla/5.0 (Windows NT 10.0; Win64; x64) AppleWebKit/537.36 (KHTML, like Gecko) Chrome/64.0.3282.140 Safari/537.36 Edge/18.17763"
\* An Edge user agent that also announces a Firefox token.
UA_EdgeFirefoxToken ==
  "Mozilla/5.0 (Windows NT 10.0; Win64; x64) AppleWebKit/537.36 (KHTML, like Gecko) Chrome/120.0.0.0 Safari/537.36 Edg/120.0.0.0 Firefox/120.0"
UA_Garbage == "curl/8.4.0"
UA_Empty == ""

\* The user-agent strings the host may present (tests, benchmark, and the
\* usual Opera, IE, legacy Edge and Chrome-on-iOS-token strings).
UserAgents ==
  { UA_ChromeDesktop, UA_FirefoxDesktop, UA_SafariDesktop, UA_EdgeDesktop,
    UA_AndroidChrome, UA_iPhoneSafari, UA_iPadSafari, UA_FirefoxMobile,
    UA_AndroidCriOS, UA_OperaDesktop, UA_IE11, UA_EdgeLegacy,
    UA_EdgeFirefoxToken, UA_Garbage, UA_Empty }

Vendors == { "Google Inc.", "Apple Computer, Inc.", "Mozilla Foundation", "" }

\* Every substring the program looks for in a lower-cased user agent.
Needles ==
  { "edg", "edge", "android", "chrome", "safari", "firefox", "fxios", "opr",
    "opera", "msie", "trident", "crios",
    "mobile", "iphone", "ipod", "blackberry", "windows phone", "opera mini",
    "iemobile", "ipad", "tablet", "playbook", "silk",
    "win", "windows", "mac", "macintosh", "linux", "x11",
    "ubuntu", "fedora", "debian", "centos", "redhat" }

\* The string operations on the user agents, evaluated once per string.
LowerMemo == [u \in UserAgents |-> toLowerCaseImpl(u)]
LoweredUserAgents == { LowerMemo[u] : u \in UserAgents }
IncludesMemo ==
  [h \in LoweredUserAgents |-> [n \in Needles |-> includesImpl(h, n)]]

toLowerCase(s) ==
  IF s \in UserAgents THEN LowerMemo[s] ELSE toLowerCaseImpl(s)

includes(hay, needle) ==
  IF hay \in LoweredUserAgents /\ needle \in Needles
  THEN IncludesMemo[hay][needle]
  ELSE includesImpl(hay, needle)

(***************************************************************************)
(* The four extractors.  Each yields [threw, browser, confidence, method]; *)
(* threw is TRUE when the JavaScript raises (a property read on an absent  *)
(* value).  h is the host: navigator, window and document.                 *)
(***************************************************************************)

BrowserType ==
  { "Chrome", "Firefox", "Safari", "Edge", "Opera", "Internet Explorer", "Unknown" }

\* The constructor's this.detectionMethods.
detectionMethods ==
  << "apiDetection", "vendorDetection", "userAgentDetection", "cssDetection" >>

MethodResult(b, c, m) ==
  [threw |-> FALSE, browser |-> b, confidence |-> c, method |-> m]
MethodThrew(m) ==
  [threw |-> TRUE, browser |-> "Unknown", confidence |-> 0, method |-> m]

\* brands.some((brand) => brand.brand === 'Microsoft Edge')
hasEdge(brands) == \E i \in 1..Len(brands) : brands[i].brand = "Microsoft Edge"

apiDetection(h) ==
  LET m == "apiDetection" IN
  IF h.InstallTrigger THEN MethodResult("Firefox", 95, m)
  ELSE IF h.chromeRuntime THEN MethodResult("Chrome", 95, m)
  ELSE IF h.safariPush THEN MethodResult("Safari", 95, m)
  ELSE IF h.hasBrands THEN
    IF hasEdge(h.brands) THEN MethodResult("Edge", 95, m)
    ELSE MethodResult("Unknown", 0, m)
  ELSE IF h.operaVersion THEN MethodResult("Opera", 90, m)
  ELSE IF h.documentMode THEN MethodResult("Internet Explorer", 95, m)
  ELSE MethodResult("Unknown", 0, m)

\* vendorDetection without the leading test for 'edg' in the user agent.
vendorDetectionVendorFirst(h) ==
  LET m == "vendorDetection" IN
  IF h.vendor = Undefined \/ h.userAgent = Undefined THEN MethodThrew(m)
  ELSE
    LET vendor == toLowerCase(h.vendor)
        ua == toLowerCase(h.userAgent)
    IN
    IF includes(vendor, "google") THEN MethodResult("Chrome", 90, m)
    ELSE IF includes(vendor, "apple") THEN MethodResult("Safari", 90, m)
    ELSE IF includes(vendor, "mozilla") THEN MethodResult("Firefox", 80, m)
    ELSE IF vendor = "" THEN
      IF includes(ua, "edg") \/ includes(ua, "edge")
      THEN MethodResult("Edge", 80, m)
      ELSE IF includes(ua, "android") /\ includes(ua, "chrome") /\ includes(ua, "safari")
      THEN MethodResult("Edge", 70, m)
      ELSE MethodResult("Unknown", 0, m)
    ELSE MethodResult("Unknown", 0, m)

vendorDetection(h) ==
  LET m == "vendorDetection" IN
  IF h.vendor = Undefined \/ h.userAgent = Undefined THEN MethodThrew(m)
  ELSE
    LET vendor == toLowerCase(h.vendor)
        ua == toLowerCase(h.userAgent)
    IN
    IF includes(ua, "edg") THEN MethodResult("Edge", 90, m)
    ELSE IF includes(vendor, "google") THEN MethodResult("Chrome", 90, m)
    ELSE IF includes(vendor, "apple") THEN MethodResult("Safari", 90, m)
    ELSE IF includes(vendor, "mozilla") THEN MethodResult("Firefox", 80, m)
    ELSE IF vendor = "" THEN
      IF includes(ua, "edg") \/ includes(ua, "edge")
      THEN MethodResult("Edge", 80, m)
      ELSE IF includes(ua, "android") /\ includes(ua, "chrome") /\ includes(ua, "safari")
      THEN MethodResult("Edge", 70, m)
      ELSE MethodResult("Unknown", 0, m)
    ELSE MethodResult("Unknown", 0, m)

\* userAgentDetection looking for 'chrome' before it looks for 'edg'.
userAgentDetectionChromeFirst(h) ==
  LET m == "userAgentDetection" IN
  IF h.userAgent = Undefined THEN MethodThrew(m)
  ELSE
    LET ua == toLowerCase(h.userAgent) IN
    IF includes(ua, "firefox") \/ includes(ua, "fxios")
    THEN MethodResult("Firefox", 85, m)
    ELSE IF includes(ua, "chrome") /\ ~includes(ua, "opr")
    THEN (IF includes(ua, "crios") THEN MethodResult("Chrome", 95, m)
          ELSE MethodResult("Chrome", 80, m))
    ELSE IF includes(ua, "edg") THEN MethodResult("Edge", 85, m)
    ELSE IF includes(ua, "opr") \/ includes(ua, "opera")
    THEN MethodResult("Opera", 85, m)
    ELSE IF includes(ua, "msie") \/ includes(ua, "trident")
    THEN MethodResult("Internet Explorer", 95, m)
    ELSE IF includes(ua, "safari") /\ h.vendor = Undefined THEN MethodThrew(m)
    ELSE IF includes(ua, "safari") /\ includes(toLowerCase(h.vendor), "google")
    THEN MethodResult("Chrome", 85, m)
    ELSE IF includes(ua, "safari") /\ ~includes(ua, "chrome")
    THEN MethodResult("Safari", 70, m)
    ELSE MethodResult("Unknown", 0, m)

userAgentDetection(h) ==
  LET m == "userAgentDetection" IN
  IF h.userAgent = Undefined THEN MethodThrew(m)
  ELSE
    LET ua == toLowerCase(h.userAgent) IN
    IF includes(ua, "firefox") \/ includes(ua, "fxios")
    THEN MethodResult("Firefox", 85, m)
    ELSE IF includes(ua, "edg") THEN MethodResult("Edge", 85, m)
    ELSE IF includes(ua, "opr") \/ includes(ua, "opera")
    THEN MethodResult("Opera", 85, m)
    ELSE IF includes(ua, "msie") \/ includes(ua, "trident")
    THEN MethodResult("Internet Explorer", 95, m)
    ELSE IF includes(ua, "chrome") /\ ~includes(ua, "edg") /\ ~includes(ua, "opr")
    THEN (IF includes(ua, "crios") THEN MethodResult("Chrome", 95, m)
          ELSE MethodResult("Chrome", 80, m))
    \* navigator.vendor.toLowerCase() is evaluated only when ua has 'safari'
    ELSE IF includes(ua, "safari") /\ h.vendor = Undefined THEN MethodThrew(m)
    ELSE IF includes(ua, "safari") /\ includes(toLowerCase(h.vendor), "google")
    THEN MethodResult("Chrome", 85, m)
    ELSE IF includes(ua, "edge") THEN MethodResult("Edge", 85, m)
    ELSE IF includes(ua, "android") /\ includes(ua, "chrome") /\ includes(ua, "safari")
            /\ ~includes(ua, "firefox") /\ h.vendor = ""
    THEN MethodResult("Edge", 80, m)
    ELSE IF includes(ua, "safari") /\ ~includes(ua, "chrome")
    THEN MethodResult("Safari", 70, m)
    ELSE MethodResult("Unknown", 0, m)

\* The steps of the feature probe, in program order; h.probeFailAt names the
\* step at which the DOM raises ("none": no step raises).
ProbeSteps ==
  << "createElement", "appendChild", "webkitTransform", "webkitAppearance",
     "userAgent", "removeChild" >>
StepIndex(step) == CHOOSE i \in 1..Len(ProbeSteps) : ProbeSteps[i] = step

\* The first step of cssDetection that raises, Len(ProbeSteps)+1 if none does.
\* Reading navigator.userAgent.toLowerCase() raises when the user agent is
\* absent.
cssFailIndex(h) ==
  LET dom == IF h.probeFailAt = "none" THEN Len(ProbeSteps) + 1
             ELSE StepIndex(h.probeFailAt)
      uaStep == IF h.userAgent = Undefined THEN StepIndex("userAgent")
                ELSE Len(ProbeSteps) + 1
  IN IF dom < uaStep THEN dom ELSE uaStep

cssDetection(h) ==
  LET m == "cssDetection"
      failAt == cssFailIndex(h)
      reached(step) == StepIndex(step) < failAt
      r0 == MethodResult("Unknown", 0, m)
      r1 == IF reached("webkitTransform") /\ h.webkitTransform /\ h.chromeWebstore
            THEN MethodResult("Chrome", 70, m) ELSE r0
      r2 == IF reached("webkitAppearance") /\ h.webkitAppearance /\ h.safariPush
            THEN MethodResult("Safari", 70, m) ELSE r1
      r3 == IF ~reached("userAgent") THEN r2
            ELSE LET ua == toLowerCase(h.userAgent) IN
              IF includes(ua, "edg") \/ includes(ua, "edge")
              THEN MethodResult("Edge", 70, m)
              ELSE IF includes(ua, "android") /\ includes(ua, "chrome")
                      /\ includes(ua, "safari") /\ h.vendor = ""
              THEN MethodResult("Edge", 60, m)
              ELSE r2
  IN r3

\* The switch of detectBrowser's loop.
RunMethod(h, method) ==
  CASE method = "apiDetection" -> apiDetection(h)
    [] method = "vendorDetection" -> vendorDetection(h)
    [] method = "userAgentDetection" -> userAgentDetection(h)
    [] method = "cssDetection" -> cssDetection(h)

(***************************************************************************)
(* Fusion: selectBestResult                                                *)
(***************************************************************************)

\* The rounding of the IEEE-754 product count * confidence, in tenths of a
\* unit of 100*score: 3 * 0.6 is 1.7999999999999998 and 3 * 0.8 is
\* 2.4000000000000004, every other product of a count up to 5 and a
\* confidence of the extractors compares as the exact product does.
FloatError(count, confidence) ==
  CASE count = 3 /\ confidence \in {60, 70, 95} -> -1
    [] count = 3 /\ confidence = 80 -> 1
    [] OTHER -> 0

\* A score that counts the candidates and ignores their confidence.
ScoreCountOnly(count, confidence) == 1000 * count

\* const score = count * confidence, on a scale that keeps the order of the
\* floating-point products.
Score(count, confidence) == 10 * count * confidence + FloatError(count, confidence)

\* Object.keys(browserCounts): the labels in order of first appearance.
BrowserKeys(methodResults) ==
  LET firsts == { i \in 1..Len(methodResults) :
                    \A j \in 1..(i - 1) : methodResults[j].browser # methodResults[i].browser }
      nth[k \in 1..Cardinality(firsts)] ==
        CHOOSE i \in firsts : Cardinality({ j \in firsts : j < i }) = k - 1
  IN [k \in 1..Cardinality(firsts) |-> methodResults[nth[k]].browser]

browserCounts(methodResults, browser) ==
  Cardinality({ i \in 1..Len(methodResults) : methodResults[i].browser = browser })

\* Math.max over the candidates of one label, starting from 0.
browserConfidences(methodResults, browser) ==
  LET cs == { methodResults[i].confidence :
                i \in { j \in 1..Len(methodResults) : methodResults[j].browser = browser } }
  IN IF cs = {} THEN 0 ELSE CHOOSE c \in cs : \A d \in cs : d <= c

\* browserResults[browser] = result: the last candidate of the label wins.
browserResults(methodResults, browser) ==
  methodResults[CHOOSE i \in 1..Len(methodResults) :
                  /\ methodResults[i].browser = browser
                  /\ \A j \in (i + 1)..Len(methodResults) : methodResults[j].browser # browser]

\* BestStep with the Chrome rule written confidence > 0.9.
BestStepStrictChrome(methodResults, best, browser) ==
  LET count == browserCounts(methodResults, browser)
      confidence == browserConfidences(methodResults, browser)
      score == Score(count, confidence)
  IN IF browser = "Edge" /\ count >= 2
     THEN [bestBrowser |-> browser, bestScore |-> score]
     ELSE IF browser = "Chrome" /\ confidence > 90
     THEN [bestBrowser |-> browser, bestScore |-> score]
     ELSE IF score > best.bestScore
     THEN [bestBrowser |-> browser, bestScore |-> score]
     ELSE best

\* One iteration of the forEach over Object.keys(browserCounts).
BestStep(methodResults, best, browser) ==
  LET count == browserCounts(methodResults, browser)
      confidence == browserConfidences(methodResults, browser)
      score == Score(count, confidence)
  IN IF browser = "Edge" /\ count >= 2
     THEN [bestBrowser |-> browser, bestScore |-> score]
     ELSE IF browser = "Chrome" /\ confidence >= 90
     THEN [bestBrowser |-> browser, bestScore |-> score]
     ELSE IF score > best.bestScore
     THEN [bestBrowser |-> browser, bestScore |-> score]
     ELSE best

\* BestPass that leaves the loop once Edge has matched its rule.
RECURSIVE BestPassBreak(_, _, _, _)
BestPassBreak(methodResults, keys, k, best) ==
  IF k > Len(keys) THEN best
  ELSE IF keys[k] = "Edge" /\ browserCounts(methodResults, "Edge") >= 2
  THEN BestStep(methodResults, best, keys[k])
  ELSE BestPassBreak(methodResults, keys, k + 1, BestStep(methodResults, best, keys[k]))

RECURSIVE BestPass(_, _, _, _)
BestPass(methodResults, keys, k, best) ==
  IF k > Len(keys) THEN best
  ELSE BestPass(methodResults, keys, k + 1, BestStep(methodResults, best, keys[k]))

\* The contributors taken from every candidate, whatever its label.
RECURSIVE MethodsOfAll(_, _)
MethodsOfAll(methodResults, browser) ==
  IF Len(methodResults) = 0 THEN << >>
  ELSE << Head(methodResults).method >> \o MethodsOfAll(Tail(methodResults), browser)

\* .filter((r) => r.browser === bestBrowser).map((r) => r.method)
RECURSIVE MethodsOf(_, _)
MethodsOf(methodResults, browser) ==
  IF Len(methodResults) = 0 THEN << >>
  ELSE (IF Head(methodResults).browser = browser
        THEN << Head(methodResults).method >> ELSE << >>)
       \o MethodsOf(Tail(methodResults), browser)

\* selectBestResult reporting the winning score as the confidence.
selectBestResultScore(methodResults) ==
  LET best == BestPass(methodResults, BrowserKeys(methodResults), 1,
                       [bestBrowser |-> "Unknown", bestScore |-> 0])
  IN [ browser |-> best.bestBrowser,
       confidence |-> best.bestScore \div 10,
       detectionMethods |-> MethodsOf(methodResults, best.bestBrowser) ]

selectBestResult(methodResults) ==
  LET best == BestPass(methodResults, BrowserKeys(methodResults), 1,
                       [bestBrowser |-> "Unknown", bestScore |-> 0])
      bestBrowser == best.bestBrowser
      hasResult == \E i \in 1..Len(methodResults) : methodResults[i].browser = bestBrowser
  IN [ browser |-> bestBrowser,
       confidence |-> IF hasResult
                      THEN browserResults(methodResults, bestBrowser).confidence
                      ELSE 0,
       detectionMethods |-> MethodsOf(methodResults, bestBrowser) ]

(***************************************************************************)
(* Device class                                                            *)
(***************************************************************************)

mobileKeywords ==
  << "mobile", "android", "iphone", "ipod", "blackberry",
     "windows phone", "opera mini", "iemobile" >>
tabletKeywords == << "ipad", "tablet", "playbook", "silk" >>

\* keywords.some(keyword => ua.includes(keyword))
SomeKeyword(keywords, ua) == \E i \in 1..Len(keywords) : includes(ua, keywords[i])

\* 'ontouchstart' in window || navigator.maxTouchPoints > 0
hasTouch(h) == h.ontouchstart \/ h.maxTouchPoints > 0

\* window.innerWidth is a number or absent; a comparison with undefined is false.
NoWidth == -1
\* The comparison window.innerWidth < n in place of <= n.
WidthBelow(w, n) == w # NoWidth /\ w < n
WidthAtMost(w, n) == w # NoWidth /\ w <= n
WidthAbove(w, n) == w # NoWidth /\ w > n

\* detectMobile and detectTablet raise when navigator.userAgent is absent.
DeviceThrows(h) == h.userAgent = Undefined

detectMobile(h) ==
  LET ua == toLowerCase(h.userAgent)
      hasMobileKeyword == SomeKeyword(mobileKeywords, ua)
      isSmallScreen == WidthAtMost(h.innerWidth, 768)
  IN hasMobileKeyword \/ (hasTouch(h) /\ isSmallScreen)

detectTablet(h) ==
  LET ua == toLowerCase(h.userAgent)
      hasTabletKeyword == SomeKeyword(tabletKeywords, ua)
      isTabletSize == WidthAbove(h.innerWidth, 768) /\ WidthAtMost(h.innerWidth, 1024)
  IN hasTabletKeyword \/ (hasTouch(h) /\ isTabletSize)

\* getPlatform asking detectTablet before detectMobile.
getPlatformTabletFirst(h) ==
  IF detectTablet(h) THEN "Tablet"
  ELSE IF detectMobile(h) THEN "Mobile"
  ELSE "Desktop"

getPlatform(h) ==
  IF detectMobile(h) THEN "Mobile"
  ELSE IF detectTablet(h) THEN "Tablet"
  ELSE "Desktop"

(***************************************************************************)
(* Pattern matching: the regular expressions of the pattern library        *)
(***************************************************************************)

NoMatch == [found |-> FALSE, group |-> ""]
Match(g) == [found |-> TRUE, group |-> g]

\* match && match[1] ? match[1] : fallback
GroupOr(m, fallback) == IF m.found /\ m.group # "" THEN m.group ELSE fallback

IsDigit(s, i) == i >= 1 /\ i <= Len(s) /\ CharAt(s, i) \in Digits
IsChar(s, i, c) == i >= 1 /\ i <= Len(s) /\ CharAt(s, i) = c

Greatest(S) == CHOOSE x \in S : \A y \in S : y <= x

\* \d+ at position j, greedy: the index of the last digit, 0 if none.
DigitRunEnd(s, j) ==
  Greatest({0} \cup { e \in j..Len(s) : \A k \in j..e : IsDigit(s, k) })

\* sep \d+ after a first run of digits that ends at e1: the index of the
\* last character, 0 if no match.
SecondPart(s, sep, e1) ==
  IF e1 > 0 /\ IsChar(s, e1 + 1, sep) THEN DigitRunEnd(s, e1 + 2) ELSE 0

\* \d+ sep \d+ at position j: the index of its last character, 0 if no match.
TwoPartEnd(s, j, sep) == SecondPart(s, sep, DigitRunEnd(s, j))

\* (?:\.\d+)? after two parts that end at e2: taken whenever it is there.
ThirdPart(s, e2) ==
  IF e2 > 0 /\ IsChar(s, e2 + 1, ".") THEN Greatest({e2, DigitRunEnd(s, e2 + 2)}) ELSE e2

\* \d+\.\d+(?:\.\d+)? at position j: the index of its last character, 0 if
\* no match.
VersionEnd(s, j) == ThirdPart(s, TwoPartEnd(s, j, "."))

StartsAt(s, i, prefix) ==
  i + Len(prefix) - 1 <= Len(s) /\ SubSeq(s, i, i + Len(prefix) - 1) = prefix

\* A match is << where the pattern starts, where group 1 starts, where it
\* ends >>; the leftmost of a set of them, << 0, 0, 0 >> if there is none.
Leftmost(G) ==
  IF G = {} THEN << 0, 0, 0 >> ELSE CHOOSE g \in G : \A h \in G : g[1] <= h[1]

\* match[1] of the match g in the string ua.
Group(ua, g) == IF g[1] = 0 THEN NoMatch ELSE Match(SubSeq(ua, g[2], g[3]))

\* The matches of (?:p1|p2)(\d+\.\d+(?:\.\d+)?) that start at position i of
\* the lower-cased string s; three = FALSE is the two-part pattern (\d+\.\d+).
GroupsAt(s, i, prefixes, three) ==
  { g \in { << i, i + Len(q),
               IF three THEN VersionEnd(s, i + Len(q)) ELSE TwoPartEnd(s, i + Len(q), ".") >> :
              q \in { x \in prefixes : StartsAt(s, i, x) } } : g[3] > 0 }

\* The leftmost match of the pattern in ua, whose lower-cased form is s.
MatchVersionIn(ua, s, prefixes, three) ==
  Group(ua, Leftmost(UNION { GroupsAt(s, i, prefixes, three) : i \in 1..Len(s) }))

\* ua.match(/(?:p1|p2)(\d+\.\d+(?:\.\d+)?)/i): the leftmost match, group 1.
MatchVersion(ua, prefixes, three) ==
  MatchVersionIn(ua, toLowerCase(ua), prefixes, three)

WordChars == Digits \cup { LowerCase[i] : i \in 1..26 } \cup {"_"}

\* \w+ at position j, greedy: the index of its last character, 0 if none.
WordRunEnd(s, j) ==
  Greatest({0} \cup { e \in j..Len(s) : \A k \in j..e : CharAt(s, k) \in WordChars })

\* \s(\d+\.\d+(?:\.\d+)?) after mobile\/\w+ that started at i and whose \w+
\* ends at w.
MobileGroup(s, i, w) ==
  << i, w + 2, IF w > 0 /\ IsChar(s, w + 1, " ") THEN VersionEnd(s, w + 2) ELSE 0 >>

\* The leftmost match of mobile\/\w+\s(\d+\.\d+(?:\.\d+)?) in ua, whose
\* lower-cased form is s.
MatchMobileVersionIn(ua, s) ==
  Group(ua, Leftmost({ g \in { MobileGroup(s, i, WordRunEnd(s, i + 7)) :
                                 i \in { k \in 1..Len(s) : StartsAt(s, k, "mobile/") } } :
                         g[3] > 0 }))

\* ua.match(/mobile\/\w+\s(\d+\.\d+(?:\.\d+)?)/i)
MatchMobileVersion(ua) == MatchMobileVersionIn(ua, toLowerCase(ua))

\* let match = ua.match(p1); if (!match) match = ua.match(p2); ...
FirstMatch(matches) ==
  IF \E i \in 1..Len(matches) : matches[i].found
  THEN matches[CHOOSE i \in 1..Len(matches) :
                 matches[i].found /\ \A j \in 1..(i - 1) : ~matches[j].found]
  ELSE NoMatch

\* The label's cascade of patterns in getBrowserVersion.
VersionCascade(ua, browser) ==
  CASE browser = "Chrome" ->
         FirstMatch(<< MatchVersion(ua, {"chrome/", "crios/"}, TRUE),
                       MatchVersion(ua, {"crios/"}, TRUE),
                       MatchVersion(ua, {"chrome/"}, TRUE) >>)
    [] browser = "Firefox" ->
         FirstMatch(<< MatchVersion(ua, {"firefox/", "fxios/"}, TRUE),
                       MatchVersion(ua, {"fxios/"}, TRUE),
                       MatchVersion(ua, {"firefox/"}, TRUE) >>)
    [] browser = "Safari" ->
         FirstMatch(<< MatchVersion(ua, {"version/", "safari/"}, TRUE),
                       MatchVersion(ua, {"version/"}, TRUE),
                       MatchMobileVersion(ua) >>)
    [] browser = "Edge" ->
         FirstMatch(<< MatchVersion(ua, {"edg/", "edge/"}, TRUE),
                       MatchVersion(ua, {"edge/"}, TRUE),
                       MatchVersion(ua, {"edg/"}, TRUE) >>)
    [] browser = "Opera" ->
         FirstMatch(<< MatchVersion(ua, {"opera/", "opr/"}, TRUE),
                       MatchVersion(ua, {"opr/"}, TRUE),
                       MatchVersion(ua, {"opera/"}, TRUE) >>)
    [] browser = "Internet Explorer" ->
         FirstMatch(<< MatchVersion(ua, {"msie ", "rv:"}, FALSE),
                       MatchVersion(ua, {"rv:"}, TRUE),
                       MatchVersion(ua, {"msie "}, TRUE) >>)
    [] OTHER -> NoMatch

\* The generic fallback applied whatever the label asked for.
GenericVersionAnyLabel(ua, browser, version) ==
  IF version = "Unknown"
  THEN GroupOr(MatchVersion(ua, {""}, TRUE), version)
  ELSE version

\* The last resort of getBrowserVersion: any version number in the string.
GenericVersion(ua, browser, version) ==
  IF version = "Unknown" /\ browser # "Unknown"
  THEN GroupOr(MatchVersion(ua, {""}, TRUE), version)
  ELSE version

\* The part of getBrowserVersion below the brand list, on the raw user agent.
uaVersion(ua, browser) ==
  GenericVersion(ua, browser, GroupOr(VersionCascade(ua, browser), "Unknown"))

uaVersionMemo == [u \in UserAgents |-> [b \in BrowserType |-> uaVersion(u, b)]]

\* The brand-list loop looking through the whole list for the label's own
\* name before it accepts 'Microsoft Edge' or 'Google Chrome'.
BrandHitOwnNameFirst(brands, browser) ==
  LET own == { i \in 1..Len(brands) : toLowerCase(brands[i].brand) = toLowerCase(browser) }
      alias == { i \in 1..Len(brands) :
                   \/ browser = "Edge" /\ brands[i].brand = "Microsoft Edge"
                   \/ browser = "Chrome" /\ brands[i].brand = "Google Chrome" }
  IN IF own # {} THEN CHOOSE i \in own : \A j \in own : i <= j
     ELSE IF alias # {} THEN CHOOSE i \in alias : \A j \in alias : i <= j
     ELSE 0

\* The brand-list loop of getBrowserVersion: the index of the first entry
\* that returns, 0 if the loop falls through.
BrandHit(brands, browser) ==
  LET hit(i) ==
        \/ toLowerCase(brands[i].brand) = toLowerCase(browser)
        \/ browser = "Edge" /\ brands[i].brand = "Microsoft Edge"
        \/ browser = "Chrome" /\ brands[i].brand = "Google Chrome"
      hits == { i \in 1..Len(brands) : hit(i) }
  IN IF hits = {} THEN 0 ELSE CHOOSE i \in hits : \A j \in hits : i <= j

\* getBrowserVersion raises on ua.match when the user agent is absent and a
\* pattern is tried.
VersionThrows(h, browser) ==
  /\ h.userAgent = Undefined
  /\ browser # "Unknown"
  /\ ~(h.hasBrands /\ BrandHit(h.brands, browser) > 0)

getBrowserVersion(h, browser) ==
  IF h.hasBrands /\ BrandHit(h.brands, browser) > 0
  THEN h.brands[BrandHit(h.brands, browser)].version
  ELSE IF h.userAgent = Undefined THEN "Unknown"
  ELSE uaVersionMemo[h.userAgent][browser]

(***************************************************************************)
(* Engine and operating system                                             *)
(***************************************************************************)

engineMap(browser) ==
  CASE browser \in {"Chrome", "Edge", "Opera"} -> "Blink"
    [] browser = "Firefox" -> "Gecko"
    [] browser = "Safari" -> "WebKit"
    [] browser = "Internet Explorer" -> "Trident"
    [] OTHER -> "Unknown"

\* The engine's own user-agent token, tried when the version is 'Unknown'.
EngineToken(engine) ==
  CASE engine = "Blink" -> "blink/"
    [] engine = "Gecko" -> "gecko/"
    [] engine = "WebKit" -> "webkit/"
    [] engine = "Trident" -> "trident/"

\* The engine's version taken from the engine's own token whenever the user
\* agent holds one.
EngineVersionTokenFirst(h, browser, version) ==
  IF browser # "Unknown" /\ h.userAgent # Undefined
  THEN GroupOr(MatchVersion(h.userAgent, {EngineToken(engineMap(browser))}, TRUE), version)
  ELSE version

\* The engine's version: the browser's, or the engine token's own when the
\* browser's is 'Unknown'.
EngineVersion(h, browser, version) ==
  IF version = "Unknown" /\ browser # "Unknown" /\ h.userAgent # Undefined
  THEN GroupOr(MatchVersion(h.userAgent, {EngineToken(engineMap(browser))}, TRUE), version)
  ELSE version

getEngineInfo(h, browser) ==
  [ engine |-> engineMap(browser),
    version |-> EngineVersion(h, browser,
                  IF browser = "Unknown" THEN "Unknown" ELSE getBrowserVersion(h, browser)) ]

\* parseInt / the integer part of parseFloat of a string that starts with digits.
RECURSIVE DigitsToNat(_, _)
DigitsToNat(s, acc) ==
  IF Len(s) = 0 \/ ~IsDigit(s, 1) THEN acc
  ELSE DigitsToNat(SubSeq(s, 2, Len(s)),
                   10 * acc + (CHOOSE d \in 0..9 : CharAt("0123456789", d + 1) = CharAt(s, 1)))

\* s.replace(/_/g, '.')
RECURSIVE ReplaceUnderscores(_)
ReplaceUnderscores(s) ==
  IF Len(s) = 0 THEN ""
  ELSE (IF CharAt(s, 1) = "_" THEN "." ELSE CharAt(s, 1))
       \o ReplaceUnderscores(SubSeq(s, 2, Len(s)))

\* ua.match(/prefix(\d+)/): the leftmost match, group 1.
MatchDigits(s, prefix) ==
  Group(s, Leftmost({ g \in { << i, i + Len(prefix), DigitRunEnd(s, i + Len(prefix)) >> :
                                i \in { k \in 1..Len(s) : StartsAt(s, k, prefix) } } :
                        g[3] > 0 }))

\* ua.match(/os\s(\d+_\d+)/i)
MatchIOS(s) ==
  Group(s, Leftmost({ g \in { << i, i + 3, TwoPartEnd(s, i + 3, "_") >> :
                                i \in { k \in 1..Len(s) : StartsAt(s, k, "os ") } } :
                        g[3] > 0 }))

\* ua.match(/windows nt (10\.0|6\.3|6\.2|6\.1)/i)
MatchWindows(s) ==
  Group(s, Leftmost({ << p[1], p[1] + 11, p[1] + 10 + Len(p[2]) >> :
                        p \in { x \in (1..Len(s)) \X {"10.0", "6.3", "6.2", "6.1"} :
                                  StartsAt(s, x[1], "windows nt " \o x[2]) } }))

\* The osVersion of each branch of getOSInfo, from what its pattern matched.
WindowsVersion(match) ==
  IF ~match.found THEN "Windows"
  ELSE CASE match.group = "10.0" -> "Windows 10/11"
         [] match.group = "6.3" -> "Windows 8.1"
         [] match.group = "6.2" -> "Windows 8"
         [] match.group = "6.1" -> "Windows 7"
         [] OTHER -> "Unknown"

MacVersionName(group, version) ==
  IF version >= 15 THEN "macOS Big Sur+"
  ELSE IF version >= 14 THEN "macOS Mojave"
  ELSE IF version >= 13 THEN "macOS High Sierra"
  ELSE IF version >= 12 THEN "macOS Sierra"
  ELSE IF version >= 11 THEN "macOS El Capitan"
  ELSE IF version >= 10 THEN "macOS Yosemite"
  ELSE "macOS " \o group

MacVersion(match) ==
  IF ~match.found THEN "macOS" ELSE MacVersionName(match.group, DigitsToNat(match.group, 0))

AndroidVersionName(group, version) ==
  IF version >= 14 THEN "Android " \o group \o " (Android 14+)"
  ELSE IF version >= 13 THEN "Android " \o group \o " (Android 13)"
  ELSE IF version >= 12 THEN "Android " \o group \o " (Android 12)"
  ELSE IF version >= 11 THEN "Android " \o group \o " (Android 11)"
  ELSE IF version >= 10 THEN "Android " \o group \o " (Android 10)"
  ELSE "Android " \o group

AndroidVersion(match) ==
  IF ~match.found THEN "Android"
  ELSE AndroidVersionName(match.group, DigitsToNat(match.group, 0))

IOSVersionName(version, versionNum) ==
  IF versionNum >= 17 THEN "iOS " \o version \o " (iOS 17+)"
  ELSE IF versionNum >= 16 THEN "iOS " \o version \o " (iOS 16)"
  ELSE IF versionNum >= 15 THEN "iOS " \o version \o " (iOS 15)"
  ELSE IF versionNum >= 14 THEN "iOS " \o version \o " (iOS 14)"
  ELSE "iOS " \o version

IOSVersion(match) ==
  IF ~match.found THEN "iOS"
  ELSE IOSVersionName(ReplaceUnderscores(match.group),
                      DigitsToNat(ReplaceUnderscores(match.group), 0))

LinuxVersion(ua) ==
  IF includes(ua, "ubuntu") THEN "Ubuntu"
  ELSE IF includes(ua, "fedora") THEN "Fedora"
  ELSE IF includes(ua, "debian") THEN "Debian"
  ELSE IF includes(ua, "centos") THEN "CentOS"
  ELSE IF includes(ua, "redhat") THEN "Red Hat"
  ELSE "Linux"

\* getOSInfo on the lower-cased user agent ua.
osInfo(ua) ==
  IF includes(ua, "win") \/ includes(ua, "windows")
  THEN [os |-> "Windows", osVersion |-> WindowsVersion(MatchWindows(ua))]
  ELSE IF includes(ua, "mac") \/ includes(ua, "macintosh")
  THEN [os |-> "macOS", osVersion |-> MacVersion(MatchDigits(ua, "mac os x 10_"))]
  ELSE IF includes(ua, "linux") \/ includes(ua, "x11")
  THEN [os |-> "Linux", osVersion |-> LinuxVersion(ua)]
  ELSE IF includes(ua, "android")
  THEN [os |-> "Android", osVersion |-> AndroidVersion(MatchVersion(ua, {"android "}, TRUE))]
  ELSE IF includes(ua, "iphone") \/ includes(ua, "ipad") \/ includes(ua, "ipod")
  THEN [os |-> "iOS", osVersion |-> IOSVersion(MatchIOS(ua))]
  ELSE [os |-> "Unknown", osVersion |-> "Unknown"]

osInfoMemo == [u \in UserAgents |-> osInfo(toLowerCase(u))]

\* getOSInfo raises when the user agent is absent.
getOSInfo(h) == osInfoMemo[h.userAgent]

(***************************************************************************)
(* detectBrowser and getCompleteInfo                                       *)
(***************************************************************************)

\* RunMethods with the try/catch around the whole loop: the first extractor
\* that raises ends it.
RECURSIVE RunMethodsAbort(_, _, _)
RunMethodsAbort(h, i, acc) ==
  IF i > Len(detectionMethods) THEN acc
  ELSE IF RunMethod(h, detectionMethods[i]).threw
  THEN [acc EXCEPT !.ran = Append(@, detectionMethods[i]),
                   !.failed = @ \cup {detectionMethods[i]}]
  ELSE RunMethodsAbort(h, i + 1,
         [ ran |-> Append(acc.ran, detectionMethods[i]),
           failed |-> acc.failed,
           methodResults |->
             IF RunMethod(h, detectionMethods[i]).browser # "Unknown"
             THEN Append(acc.methodResults,
                         [ browser |-> RunMethod(h, detectionMethods[i]).browser,
                           confidence |-> RunMethod(h, detectionMethods[i]).confidence,
                           method |-> detectionMethods[i] ])
             ELSE acc.methodResults ])

\* RunStep without the test for 'Unknown': every result that was returned
\* is pushed.
RunStepPushAll(acc, method, methodResult) ==
  [ ran |-> Append(acc.ran, method),
    failed |-> IF methodResult.threw THEN acc.failed \cup {method} ELSE acc.failed,
    methodResults |->
      IF ~methodResult.threw
      THEN Append(acc.methodResults,
                  [ browser |-> methodResult.browser,
                    confidence |-> methodResult.confidence,
                    method |-> methodResult.method ])
      ELSE acc.methodResults ]

\* One iteration of the loop over this.detectionMethods: the method is
\* invoked; if it raises, the catch records the failure; its result is pushed
\* unless the label is 'Unknown'.
RunStep(acc, method, methodResult) ==
  [ ran |-> Append(acc.ran, method),
    failed |-> IF methodResult.threw THEN acc.failed \cup {method} ELSE acc.failed,
    methodResults |->
      IF ~methodResult.threw /\ methodResult.browser # "Unknown"
      THEN Append(acc.methodResults,
                  [ browser |-> methodResult.browser,
                    confidence |-> methodResult.confidence,
                    method |-> methodResult.method ])
      ELSE acc.methodResults ]

\* The loop over this.detectionMethods with its try/catch, from method i on:
\* ran is the list of methods invoked, failed those that raised, and
\* methodResults the candidates pushed.
RECURSIVE RunMethods(_, _, _)
RunMethods(h, i, acc) ==
  IF i > Len(detectionMethods) THEN acc
  ELSE RunMethods(h, i + 1, RunStep(acc, detectionMethods[i], RunMethod(h, detectionMethods[i])))

NoRun == [ran |-> << >>, failed |-> {}, methodResults |-> << >>]

\* if (methodResults.length > 0) Object.assign(result, selectBestResult(...))
Fused(methodResults) ==
  IF Len(methodResults) > 0 THEN selectBestResult(methodResults)
  ELSE [browser |-> "Unknown", confidence |-> 0, detectionMethods |-> << >>]

\* The body of detectBrowser on a cache miss raises when detectMobile does.
detectBrowserThrows(h) == DeviceThrows(h)

\* The result object of detectBrowser once fusion, the device flags, the
\* engine and the operating system are known; platform keeps its initial
\* 'Unknown'.
ResultOf(h, ref, t, fused, isMobile, isTablet, engineInfo, os) ==
  [ ref |-> ref,
    browser |-> fused.browser,
    browserVersion |-> getBrowserVersion(h, fused.browser),
    engine |-> engineInfo.engine,
    engineVersion |-> engineInfo.version,
    platform |-> "Unknown",
    os |-> os.os,
    osVersion |-> os.osVersion,
    isMobile |-> isMobile,
    isTablet |-> isTablet,
    isDesktop |-> ~isMobile /\ ~isTablet,
    confidence |-> fused.confidence,
    detectionMethods |-> fused.detectionMethods,
    userAgent |-> h.userAgent,
    vendor |-> h.vendor,
    timestamp |-> t ]

\* engineInfo = this.getEngineInfo(result.browser), after fusion.
WithEngine(h, ref, t, fused, isMobile, isTablet) ==
  ResultOf(h, ref, t, fused, isMobile, isTablet,
           getEngineInfo(h, fused.browser), getOSInfo(h))

\* The BrowserDetectionResult built on a cache miss: ref names the object
\* (two results are the same object iff they have the same ref), t is
\* Date.now().
BuildResult(h, ref, t) ==
  WithEngine(h, ref, t, Fused(RunMethods(h, 1, NoRun).methodResults),
             detectMobile(h), detectTablet(h))

\* No object: what a call that raised, or that returns no result, leaves.
NoResult ==
  [ ref |-> 0, browser |-> "", browserVersion |-> "", engine |-> "",
    engineVersion |-> "", platform |-> "", os |-> "", osVersion |-> "",
    isMobile |-> FALSE, isTablet |-> FALSE, isDesktop |-> FALSE,
    confidence |-> 0, detectionMethods |-> << >>, userAgent |-> "",
    vendor |-> "", timestamp |-> 0 ]

\* getCompleteInfo raises when getOSInfo does (the user agent is absent).
completeInfoThrows(h) == h.userAgent = Undefined

\* The object literal getCompleteInfo returns, from the detection it got
\* and what the resolvers answer on the host as it is now.
CompleteInfoOf(h, detection, ref, engineInfo, os) ==
  [ ref |-> ref,
    browser |-> detection.browser,
    browserVersion |-> getBrowserVersion(h, detection.browser),
    engine |-> engineInfo.engine,
    engineVersion |-> engineInfo.version,
    platform |-> getPlatform(h),
    os |-> os.os,
    osVersion |-> os.osVersion,
    isMobile |-> detection.isMobile,
    isTablet |-> detection.isTablet,
    isDesktop |-> detection.isDesktop,
    confidence |-> detection.confidence,
    detectionMethods |-> detection.detectionMethods,
    userAgent |-> h.userAgent,
    vendor |-> h.vendor,
    timestamp |-> detection.timestamp ]

CompleteInfo(h, detection, ref) ==
  CompleteInfoOf(h, detection, ref, getEngineInfo(h, detection.browser), getOSInfo(h))

(***************************************************************************)
(* The cache: a Map from keys to results                                   *)
(***************************************************************************)

cacheKey == "browser_detection"

EmptyMap == [k \in {} |-> NoResult]
MapHas(map, key) == key \in DOMAIN map
MapGet(map, key) == map[key]
MapSet(map, key, value) ==
  [k \in DOMAIN map \cup {key} |-> IF k = key THEN value ELSE map[k]]
MapClear(map) == EmptyMap
MapSize(map) == Cardinality(DOMAIN map)

\* Array.from(map.keys())
RECURSIVE SetToSeq(_)
SetToSeq(S) ==
  IF S = {} THEN << >>
  ELSE LET x == CHOOSE y \in S : TRUE IN << x >> \o SetToSeq(S \ {x})
MapKeys(map) == SetToSeq(DOMAIN map)

\* A cache that is never consulted, one keyed by the user agent, and a
\* clear that removes nothing.
cacheHasNever(map) == FALSE
cacheSetPerAgent(map, result) == MapSet(map, result.userAgent, result)
cacheClearKeeps(map) == map

\* this.cache.has(cacheKey) in detectBrowser
cacheHas(map) == MapHas(map, cacheKey)
\* this.cache.set(cacheKey, result) in detectBrowser
cacheSet(map, result) == MapSet(map, cacheKey, result)
\* this.cache.clear() in clearCache
cacheClear(map) == MapClear(map)

(***************************************************************************)
(* The hosts the instance may run on                                       *)
(***************************************************************************)

ApiNone ==
  [ InstallTrigger |-> FALSE, chromeRuntime |-> FALSE, chromeWebstore |-> FALSE,
    safariPush |-> FALSE, hasBrands |-> FALSE, brands |-> << >>,
    operaVersion |-> FALSE, documentMode |-> FALSE ]
ApiFirefox == [ApiNone EXCEPT !.InstallTrigger = TRUE]
ApiChrome == [ApiNone EXCEPT !.chromeRuntime = TRUE, !.chromeWebstore = TRUE]
ApiChromeRuntime == [ApiNone EXCEPT !.chromeRuntime = TRUE]
ApiWebstore == [ApiNone EXCEPT !.chromeWebstore = TRUE]
ApiSafari == [ApiNone EXCEPT !.safariPush = TRUE]
ApiOpera == [ApiNone EXCEPT !.operaVersion = TRUE]
ApiIE == [ApiNone EXCEPT !.documentMode = TRUE]
ApiFirefoxChrome == [ApiChrome EXCEPT !.InstallTrigger = TRUE]

BrandsEdge ==
  << [brand |-> "Not_A Brand", version |-> "8"],
     [brand |-> "Chromium", version |-> "120"],
     [brand |-> "Microsoft Edge", version |-> "120"] >>
BrandsEdgeNoVersion == << [brand |-> "Microsoft Edge", version |-> Undefined] >>
BrandsChrome ==
  << [brand |-> "Chromium", version |-> "120"],
     [brand |-> "Google Chrome", version |-> "120"] >>

ApiEdgeBrands == [ApiNone EXCEPT !.hasBrands = TRUE, !.brands = BrandsEdge]
ApiEdgeBrandsNoVersion ==
  [ApiNone EXCEPT !.hasBrands = TRUE, !.brands = BrandsEdgeNoVersion]
ApiChromeBrands == [ApiChrome EXCEPT !.hasBrands = TRUE, !.brands = BrandsChrome]
\* A brand list with two entries that answer for the label Chrome.
BrandsChromeTwice ==
  << [brand |-> "Chromium", version |-> "120"],
     [brand |-> "Google Chrome", version |-> "121"],
     [brand |-> "Chrome", version |-> "122"] >>
ApiChromeBrandsTwice ==
  [ApiChrome EXCEPT !.hasBrands = TRUE, !.brands = BrandsChromeTwice]
ApiOperaChromeBrands ==
  [ApiOpera EXCEPT !.hasBrands = TRUE, !.brands = BrandsChrome]

ApiProfiles ==
  { ApiNone, ApiFirefox, ApiChrome, ApiChromeRuntime, ApiWebstore, ApiSafari,
    ApiOpera, ApiIE, ApiFirefoxChrome, ApiEdgeBrands, ApiEdgeBrandsNoVersion,
    ApiChromeBrands, ApiOperaChromeBrands }

Device(touch, points, width) ==
  [ontouchstart |-> touch, maxTouchPoints |-> points, innerWidth |-> width]
DeviceDesktop == Device(FALSE, 0, 1920)
DevicePhone == Device(TRUE, 5, 375)
DeviceProfiles ==
  { DeviceDesktop, DevicePhone, Device(TRUE, 5, 768), Device(FALSE, 5, 800),
    Device(TRUE, 0, 1024), Device(TRUE, 5, 1025), Device(FALSE, 0, 375),
    Device(FALSE, 0, NoWidth) }

Dom(failAt, transform, appearance) ==
  [probeFailAt |-> failAt, webkitTransform |-> transform, webkitAppearance |-> appearance]
DomOk == Dom("none", TRUE, TRUE)
DomProfiles ==
  { DomOk, Dom("none", FALSE, FALSE), Dom("appendChild", TRUE, TRUE),
    Dom("removeChild", TRUE, TRUE) }

Host(ua, vendor, api, device, dom) ==
  [userAgent |-> ua, vendor |-> vendor] @@ api @@ device @@ dom

\* Every host of the classification runs: each user agent (or none) with
\* each vendor (or none), capability profile, device and DOM behaviour.
AllHosts ==
  { Host(ua, vendor, api, device, dom) :
      ua \in UserAgents \cup {Undefined}, vendor \in Vendors \cup {Undefined},
      api \in ApiProfiles, device \in DeviceProfiles, dom \in DomProfiles }

\* The hosts of the life-cycle runs, where the host changes under the
\* instance: the environments of the tests and of the benchmark, and the
\* degenerate ones.
SessionHosts ==
  { Host(UA_ChromeDesktop, "Google Inc.", ApiChrome, DeviceDesktop, DomOk),
    Host(UA_EdgeDesktop, "", ApiNone, DeviceDesktop, DomOk),
    Host(UA_FirefoxDesktop, "Mozilla Foundation", ApiFirefox, DeviceDesktop, DomOk),
    Host(UA_iPadSafari, "Apple Computer, Inc.", ApiSafari, Device(TRUE, 5, 1024), DomOk),
    Host(UA_AndroidChrome, "", ApiEdgeBrandsNoVersion, DevicePhone, DomOk),
    Host(UA_ChromeDesktop, "Google Inc.", ApiChromeBrandsTwice, Device(TRUE, 0, 800), DomOk),
    Host(UA_Garbage, "", ApiNone, DeviceDesktop, Dom("appendChild", TRUE, TRUE)),
    Host(Undefined, Undefined, ApiNone, Device(FALSE, 0, NoWidth), Dom("appendChild", TRUE, TRUE)) }

(***************************************************************************)
(* The state machine: one SmartBrowserDetection instance on its host       *)
(***************************************************************************)

\* Objects the instance may allocate, and readings of the clock.
MaxObjects == 3
MaxTime == 1

VARIABLES
  host,      \* navigator, window, document as they are now
  cache,     \* this.cache
  nextRef,   \* number of result objects allocated so far
  now,       \* Date.now()
  call       \* the last operation: its name, argument and outcome

vars == << host, cache, nextRef, now, call >>

\* The record of an operation that returned nothing yet.
Call(op) ==
  [ op |-> op, arg |-> "", threw |-> FALSE, ret |-> NoResult, strs |-> << >>,
    flag |-> FALSE, size |-> 0, keys |-> << >>, hit |-> FALSE, run |-> NoRun ]

Init ==
  /\ host \in SessionHosts
  /\ cache = EmptyMap
  /\ nextRef = 0
  /\ now = 0
  /\ call = Call("new")

\* The environment: the page is moved to another host, time passes.
HostChange ==
  /\ host' \in SessionHosts \ {host}
  /\ call' = Call("hostChange")
  /\ UNCHANGED << cache, nextRef, now >>

Tick ==
  /\ now < MaxTime
  /\ now' = now + 1
  /\ call' = Call("tick")
  /\ UNCHANGED << host, cache, nextRef >>

\* detectBrowser() storing the result before the device class is computed:
\* when detectMobile raises, the fused part is already in the cache.
DetectBrowserStoresEarly ==
  IF cacheHas(cache)
  THEN /\ call' = [Call("detectBrowser") EXCEPT !.ret = MapGet(cache, cacheKey), !.hit = TRUE]
       /\ UNCHANGED << host, cache, nextRef, now >>
  ELSE /\ nextRef < MaxObjects
       /\ IF detectBrowserThrows(host)
          THEN /\ cache' = cacheSet(cache, [NoResult EXCEPT !.ref = nextRef + 1,
                                                             !.browser = "Unknown",
                                                             !.timestamp = now])
               /\ nextRef' = nextRef + 1
               /\ call' = [Call("detectBrowser") EXCEPT
                             !.threw = TRUE, !.run = RunMethods(host, 1, NoRun)]
               /\ UNCHANGED << host, now >>
          ELSE LET result == BuildResult(host, nextRef + 1, now) IN
               /\ cache' = cacheSet(cache, result)
               /\ nextRef' = nextRef + 1
               /\ call' = [Call("detectBrowser") EXCEPT
                             !.ret = result, !.run = RunMethods(host, 1, NoRun)]
               /\ UNCHANGED << host, now >>

\* detectBrowser() with a cache entry that expires when the clock advances.
DetectBrowserExpiring ==
  IF cacheHas(cache) /\ MapGet(cache, cacheKey).timestamp = now
  THEN /\ call' = [Call("detectBrowser") EXCEPT !.ret = MapGet(cache, cacheKey), !.hit = TRUE]
       /\ UNCHANGED << host, cache, nextRef, now >>
  ELSE /\ nextRef < MaxObjects
       /\ IF detectBrowserThrows(host)
          THEN /\ call' = [Call("detectBrowser") EXCEPT
                             !.threw = TRUE, !.run = RunMethods(host, 1, NoRun)]
               /\ UNCHANGED << host, cache, nextRef, now >>
          ELSE LET result == BuildResult(host, nextRef + 1, now) IN
               /\ cache' = cacheSet(cache, result)
               /\ nextRef' = nextRef + 1
               /\ call' = [Call("detectBrowser") EXCEPT
                             !.ret = result, !.run = RunMethods(host, 1, NoRun)]
               /\ UNCHANGED << host, now >>

\* detectBrowser(): the cached object on a hit; on a miss the extractors
\* run, the result is built, stored and returned, unless detectMobile raises.
DetectBrowser ==
  IF cacheHas(cache)
  THEN /\ call' = [Call("detectBrowser") EXCEPT !.ret = MapGet(cache, cacheKey), !.hit = TRUE]
       /\ UNCHANGED << host, cache, nextRef, now >>
  ELSE /\ nextRef < MaxObjects
       /\ IF detectBrowserThrows(host)
          THEN /\ call' = [Call("detectBrowser") EXCEPT
                             !.threw = TRUE, !.run = RunMethods(host, 1, NoRun)]
               /\ UNCHANGED << host, cache, nextRef, now >>
          ELSE LET result == BuildResult(host, nextRef + 1, now) IN
               /\ cache' = cacheSet(cache, result)
               /\ nextRef' = nextRef + 1
               /\ call' = [Call("detectBrowser") EXCEPT
                             !.ret = result, !.run = RunMethods(host, 1, NoRun)]
               /\ UNCHANGED << host, now >>

ClearCache ==
  /\ cache' = cacheClear(cache)
  /\ call' = Call("clearCache")
  /\ UNCHANGED << host, nextRef, now >>

GetCacheStats ==
  /\ call' = [Call("getCacheStats") EXCEPT !.size = MapSize(cache), !.keys = MapKeys(cache)]
  /\ UNCHANGED << host, cache, nextRef, now >>

\* getCompleteInfo(): detectBrowser(), then the resolvers on the host as it
\* is now; a new object is returned, the cache is touched by detectBrowser only.
GetCompleteInfo ==
  IF cacheHas(cache)
  THEN /\ nextRef < MaxObjects
       /\ IF completeInfoThrows(host)
          THEN /\ call' = [Call("getCompleteInfo") EXCEPT !.threw = TRUE, !.hit = TRUE]
               /\ UNCHANGED << host, cache, nextRef, now >>
          ELSE /\ call' = [Call("getCompleteInfo") EXCEPT
                             !.ret = CompleteInfo(host, MapGet(cache, cacheKey), nextRef + 1),
                             !.hit = TRUE]
               /\ nextRef' = nextRef + 1
               /\ UNCHANGED << host, cache, now >>
  ELSE /\ nextRef + 1 < MaxObjects
       /\ IF detectBrowserThrows(host)
          THEN /\ call' = [Call("getCompleteInfo") EXCEPT
                             !.threw = TRUE, !.run = RunMethods(host, 1, NoRun)]
               /\ UNCHANGED << host, cache, nextRef, now >>
          ELSE LET detection == BuildResult(host, nextRef + 1, now) IN
               /\ cache' = cacheSet(cache, detection)
               /\ nextRef' = nextRef + 2
               /\ call' = [Call("getCompleteInfo") EXCEPT
                             !.ret = CompleteInfo(host, detection, nextRef + 2),
                             !.run = RunMethods(host, 1, NoRun)]
               /\ UNCHANGED << host, now >>

\* The standalone getters read the host and leave the instance alone.
DetectMobile ==
  /\ call' = IF DeviceThrows(host) THEN [Call("detectMobile") EXCEPT !.threw = TRUE]
             ELSE [Call("detectMobile") EXCEPT !.flag = detectMobile(host)]
  /\ UNCHANGED << host, cache, nextRef, now >>

DetectTablet ==
  /\ call' = IF DeviceThrows(host) THEN [Call("detectTablet") EXCEPT !.threw = TRUE]
             ELSE [Call("detectTablet") EXCEPT !.flag = detectTablet(host)]
  /\ UNCHANGED << host, cache, nextRef, now >>

GetPlatform ==
  /\ call' = IF DeviceThrows(host) THEN [Call("getPlatform") EXCEPT !.threw = TRUE]
             ELSE [Call("getPlatform") EXCEPT !.strs = << getPlatform(host) >>]
  /\ UNCHANGED << host, cache, nextRef, now >>

GetBrowserVersion ==
  /\ \E browser \in BrowserType :
       call' = IF VersionThrows(host, browser)
               THEN [Call("getBrowserVersion") EXCEPT !.arg = browser, !.threw = TRUE]
               ELSE [Call("getBrowserVersion") EXCEPT
                       !.arg = browser, !.strs = << getBrowserVersion(host, browser) >>]
  /\ UNCHANGED << host, cache, nextRef, now >>

GetEngineInfo ==
  /\ \E browser \in BrowserType :
       call' = IF VersionThrows(host, browser)
               THEN [Call("getEngineInfo") EXCEPT !.arg = browser, !.threw = TRUE]
               ELSE LET info == getEngineInfo(host, browser) IN
                    [Call("getEngineInfo") EXCEPT
                       !.arg = browser, !.strs = << info.engine, info.version >>]
  /\ UNCHANGED << host, cache, nextRef, now >>

GetOSInfo ==
  /\ call' = IF host.userAgent = Undefined THEN [Call("getOSInfo") EXCEPT !.threw = TRUE]
             ELSE LET info == getOSInfo(host) IN
                  [Call("getOSInfo") EXCEPT !.strs = << info.os, info.osVersion >>]
  /\ UNCHANGED << host, cache, nextRef, now >>

Next ==
  \/ HostChange
  \/ Tick
  \/ DetectBrowser
  \/ GetCompleteInfo
  \/ ClearCache
  \/ GetCacheStats
  \/ DetectMobile
  \/ DetectTablet
  \/ GetPlatform
  \/ GetBrowserVersion
  \/ GetEngineInfo
  \/ GetOSInfo

\* The life cycle of one instance while its host changes.
Spec == Init /\ [][Next]_vars

\* Classification runs: a new instance on any host, classified and asked again.
InitClassify ==
  /\ host \in AllHosts
  /\ cache = EmptyMap
  /\ nextRef = 0
  /\ now = 0
  /\ call = Call("new")

NextClassify == DetectBrowser

SpecClassify == InitClassify /\ [][NextClassify]_vars

(***************************************************************************)
(* Properties of the cache life cycle (Spec)                               *)
(***************************************************************************)

\* A detectBrowser() call that returned.
Returned(c) == c.op = "detectBrowser" /\ ~c.threw

\* C1: two consecutive detectBrowser() calls that return, with no
\* clearCache() between them, return the very same object (same ref, hence
\* the same field values), and after a detectBrowser() call that returned the
\* cache holds exactly one entry, the returned object; a call that finds the
\* cache occupied returns the object held and leaves the cache as it is.
C1_SameObjectTwice ==
  [][ Returned(call') =>
        /\ MapSize(cache') = 1
        /\ cache'[cacheKey] = call'.ret
        /\ (Returned(call) => call'.ret = call.ret /\ call'.ret.ref = call.ret.ref)
        /\ (cache # EmptyMap => call'.ret = cache[cacheKey] /\ cache' = cache) ]_vars

\* C1 witness: a later detectBrowser() answered from the cache although the
\* host has changed since the object was built.
C1_Witness ==
  /\ Returned(call) /\ call.hit
  /\ call.ret.ref >= 1
  /\ call.ret.userAgent # host.userAgent
  /\ MapSize(cache) = 1 /\ cache[cacheKey] = call.ret

\* C2: the cache is empty at construction, holds at most one entry, under the
\* fixed key, whatever the host is changed to (getCacheStats reports a size
\* of 0 or 1 and the keys to match), and once occupied stays occupied through
\* every operation but clearCache().
C2_SingleSlot ==
  /\ cache = EmptyMap
  /\ [](/\ DOMAIN cache \subseteq {cacheKey}
        /\ MapSize(cache) \in {0, 1}
        /\ (call.op = "getCacheStats" =>
              /\ call.size = MapSize(cache)
              /\ call.keys = (IF call.size = 1 THEN << cacheKey >> ELSE << >>)))
  /\ [][ (cache # EmptyMap /\ call'.op # "clearCache") => cache' # EmptyMap ]_vars

\* C2 witness: getCacheStats() on an occupied cache after the host changed
\* and a second result was built.
C2_Witness ==
  /\ call.op = "getCacheStats"
  /\ call.size = 1 /\ call.keys = << cacheKey >>
  /\ nextRef >= 2
  /\ cache[cacheKey].userAgent # host.userAgent

\* C3: clearCache() leaves the cache with size 0; a detectBrowser() call
\* that finds the cache empty and returns has run all four extractors,
\* returns an object allocated by this call (never an earlier one) whose
\* fields are computed from the host as it is at the call, and leaves the
\* cache occupied by that object.
C3_ClearThenRebuild ==
  [][ /\ (call'.op = "clearCache" => MapSize(cache') = 0)
      /\ (Returned(call') /\ cache = EmptyMap =>
            /\ ~call'.hit
            /\ call'.run.ran = detectionMethods
            /\ call'.ret.ref > nextRef
            /\ call'.ret.userAgent = host'.userAgent
            /\ call'.ret.vendor = host'.vendor
            /\ call'.ret.timestamp = now'
            /\ call'.ret = BuildResult(host', call'.ret.ref, now')
            /\ MapSize(cache') = 1 /\ cache'[cacheKey] = call'.ret) ]_vars

\* C3 witness: a result rebuilt after a clearCache(), on another host than
\* the first result was built on.
C3_Witness ==
  /\ Returned(call) /\ ~call.hit
  /\ call.ret.ref >= 2
  /\ cache[cacheKey] = call.ret

(***************************************************************************)
(* Properties of classification (SpecClassify)                             *)
(***************************************************************************)

\* A detectBrowser() call that ran the extractors and returned.
Classified(c) == Returned(c) /\ ~c.hit

\* The candidates of the last classification, and what the claims say of
\* them: how many carry a label, the largest confidence among them, the
\* position of the first.
Candidates == call.run.methodResults
CountOf(browser) == Cardinality({ i \in DOMAIN Candidates : Candidates[i].browser = browser })
MaxConfidenceOf(browser) ==
  LET cs == { Candidates[i].confidence :
                i \in { j \in DOMAIN Candidates : Candidates[j].browser = browser } }
  IN CHOOSE c \in cs \cup {0} : \A d \in cs : d <= c
FirstOf(browser) ==
  CHOOSE i \in DOMAIN Candidates :
    /\ Candidates[i].browser = browser
    /\ \A j \in 1..(i - 1) : Candidates[j].browser # browser
LabelsAfter(browser) ==
  { Candidates[i].browser : i \in { j \in DOMAIN Candidates : j > FirstOf(browser) } }
    \ { Candidates[i].browser : i \in { j \in DOMAIN Candidates : j <= FirstOf(browser) } }
ScoreOf(browser) == Score(CountOf(browser), MaxConfidenceOf(browser))

\* C4: on every result detectBrowser() returns, exactly one of isMobile,
\* isTablet and isDesktop is true.
C4_DeviceClassPartition ==
  Returned(call) =>
    Cardinality({ f \in {"isMobile", "isTablet", "isDesktop"} : call.ret[f] }) = 1

\* C5: on every result detectBrowser() returns, the confidence lies between
\* 0 and 1 (0..100 hundredths) and the label is one of the seven of
\* BrowserType.
C5_ConfidenceAndLabelRange ==
  Returned(call) =>
    /\ call.ret.confidence \in 0..100
    /\ call.ret.browser \in
         {"Chrome", "Firefox", "Safari", "Edge", "Opera", "Internet Explorer", "Unknown"}

\* C5 witness: a returned result whose label got two votes at confidence
\* 0.95 or more, so that its score exceeds 1.
C5_Witness ==
  /\ Classified(call)
  /\ call.ret.confidence >= 95
  /\ Len(call.ret.detectionMethods) >= 2

\* C6: whatever signals the host has or lacks, a detectBrowser() call raises
\* nothing and returns a result.
C6_NoFatalError ==
  call.op = "detectBrowser" => ~call.threw /\ call.ret.ref >= 1

\* C7: in a detectBrowser() call that finds the cache empty all four
\* extractors are invoked, in their order, whichever of them raise; the ones
\* that raise are recorded as failed and contribute no candidate; the
\* candidates fused are exactly the non-Unknown results of the extractors
\* that did not raise, in order; and the result returned carries the fusion
\* of these candidates.
C7_ExtractorIsolation ==
  (call.op = "detectBrowser" /\ ~call.hit) =>
    LET outcomes == [i \in 1..4 |-> RunMethod(host, detectionMethods[i])]
        kept == SelectSeq(outcomes, LAMBDA r : ~r.threw /\ r.browser # "Unknown")
    IN /\ call.run.ran =
            << "apiDetection", "vendorDetection", "userAgentDetection", "cssDetection" >>
       /\ call.run.failed = { detectionMethods[i] : i \in { j \in 1..4 : outcomes[j].threw } }
       /\ \A i \in DOMAIN Candidates : Candidates[i].method \notin call.run.failed
       /\ Len(Candidates) = Len(kept)
       /\ \A i \in DOMAIN Candidates :
            /\ Candidates[i].browser = kept[i].browser
            /\ Candidates[i].confidence = kept[i].confidence
            /\ Candidates[i].method = kept[i].method
       /\ (~call.threw =>
             /\ call.ret.browser = Fused(Candidates).browser
             /\ call.ret.confidence = Fused(Candidates).confidence
             /\ call.ret.detectionMethods = Fused(Candidates).detectionMethods)

\* C7 witness: vendorDetection raised, the extractors after it still ran and
\* userAgentDetection contributed to the result returned.
C7_Witness ==
  /\ Classified(call)
  /\ call.run.failed = {"vendorDetection"}
  /\ \E i \in DOMAIN Candidates : Candidates[i].method = "userAgentDetection"
  /\ "userAgentDetection" \in { call.ret.detectionMethods[i] : i \in DOMAIN call.ret.detectionMethods }

\* C8: when at least one candidate exists, the confidence of the result is
\* the largest confidence among the candidates carrying the winning label.
C8_ConfidenceIsMaxOfWinner ==
  (Classified(call) /\ Len(Candidates) > 0) =>
    call.ret.confidence = MaxConfidenceOf(call.ret.browser)

\* C9 as stated: whenever at least two candidates carry Edge, the fused label
\* is Edge.
C9_EdgeAlwaysWins ==
  (Classified(call) /\ CountOf("Edge") >= 2) => call.ret.browser = "Edge"

\* C9: whenever at least two candidates carry Edge, the fused label is Edge
\* exactly when no label that first appears after Edge's first candidate is
\* Chrome with a largest confidence of 0.9 or more, or has a score
\* (count times largest confidence) above Edge's; labels that first appear
\* before Edge never keep Edge from winning.
C9_EdgeWinsUnlessLaterLabel ==
  (Classified(call) /\ CountOf("Edge") >= 2) =>
    (call.ret.browser = "Edge" <=>
       ~\E b \in LabelsAfter("Edge") :
          \/ b = "Chrome" /\ MaxConfidenceOf("Chrome") >= 90
          \/ ScoreOf(b) > ScoreOf("Edge"))

\* C9 witness: two Edge candidates win although another label came first
\* with a confidence above every Edge candidate's.
C9_Witness ==
  /\ Classified(call)
  /\ CountOf("Edge") >= 2
  /\ Candidates[1].browser # "Edge"
  /\ Candidates[1].confidence > MaxConfidenceOf("Edge")
  /\ call.ret.browser = "Edge"

\* C10 as stated: whenever fewer than two candidates carry Edge and the
\* largest confidence among the Chrome candidates is 0.9 or more, the fused
\* label is Chrome.
C10_ChromeAlwaysWins ==
  (Classified(call) /\ CountOf("Edge") < 2 /\ MaxConfidenceOf("Chrome") >= 90) =>
    call.ret.browser = "Chrome"

\* C10: whenever fewer than two candidates carry Edge and the largest
\* confidence among the Chrome candidates is 0.9 or more, the fused label is
\* Chrome exactly when no label that first appears after Chrome's first
\* candidate has a score (count times largest confidence) above Chrome's;
\* labels that first appear before Chrome never keep Chrome from winning.
C10_ChromeWinsUnlessLaterScore ==
  (Classified(call) /\ CountOf("Edge") < 2 /\ MaxConfidenceOf("Chrome") >= 90) =>
    (call.ret.browser = "Chrome" <=>
       ~\E b \in LabelsAfter("Chrome") : ScoreOf(b) > ScoreOf("Chrome"))

\* C10 witness: a single Chrome candidate at 0.9 wins although another label
\* came first with a higher score.
C10_Witness ==
  /\ Classified(call)
  /\ CountOf("Edge") < 2
  /\ CountOf("Chrome") = 1 /\ MaxConfidenceOf("Chrome") = 90
  /\ Candidates[1].browser # "Chrome"
  /\ ScoreOf(Candidates[1].browser) > ScoreOf("Chrome")
  /\ call.ret.browser = "Chrome"


(***************************************************************************)
(* Properties of the score rule, the contributors and the scenarios        *)
(***************************************************************************)

\* The labels of the candidates of the last classification, and the product
\* count * maxConfidence of a label (in hundredths).
LabelsOf == { Candidates[i].browser : i \in DOMAIN Candidates }
ProductOf(browser) == CountOf(browser) * MaxConfidenceOf(browser)
NoOverride == CountOf("Edge") < 2 /\ MaxConfidenceOf("Chrome") < 90

\* C11: when neither override applies (fewer than 2 Edge candidates, Chrome's
\* largest confidence below 0.9) and there is a candidate, the fused label is
\* a label of the list whose product count * maxConfidence is the largest of
\* all labels, and among the labels with that product it is the one whose
\* first candidate comes earliest.
C11_ScoreRule ==
  (Classified(call) /\ NoOverride /\ Candidates # << >>) =>
    /\ call.ret.browser \in LabelsOf
    /\ \A b \in LabelsOf :
         /\ ProductOf(b) <= ProductOf(call.ret.browser)
         /\ ProductOf(b) = ProductOf(call.ret.browser)
              => FirstOf(call.ret.browser) <= FirstOf(b)

\* Three labels, neither override: two share the largest product and the
\* earlier of them is returned, though a smaller label comes first of all.
C11_Witness ==
  /\ Classified(call) /\ NoOverride
  /\ \E b \in LabelsOf \ {call.ret.browser} :
       /\ ProductOf(b) = ProductOf(call.ret.browser)
       /\ FirstOf(call.ret.browser) < FirstOf(b)
  /\ \E b \in LabelsOf : ProductOf(b) < ProductOf(call.ret.browser)


\* The extractors whose candidate carries the label, in the fixed order of
\* evaluation.
AgreeingWith(m, browser) ==
  \E i \in DOMAIN Candidates :
    Candidates[i].method = m /\ Candidates[i].browser = browser
ContributorsOf(browser) ==
  SelectSeq(detectionMethods, LAMBDA m : AgreeingWith(m, browser))

\* C12: in every result of detectBrowser(), detectionMethods is the list of
\* the extractors whose candidate label equals the final label, each once, in
\* the order apiDetection, vendorDetection, userAgentDetection, cssDetection.
C12_Contributors ==
  Classified(call) =>
    /\ call.ret.detectionMethods = ContributorsOf(call.ret.browser)
    /\ \A i, j \in DOMAIN call.ret.detectionMethods :
         i # j => call.ret.detectionMethods[i] # call.ret.detectionMethods[j]

\* Four candidates, the first and the third agree with the final label, the
\* second and the fourth do not.
C12_Witness ==
  /\ Classified(call)
  /\ Len(Candidates) = 4
  /\ call.ret.detectionMethods = << "apiDetection", "userAgentDetection" >>


\* The hosts of scenario E: a user agent without any token the program looks
\* for, an empty vendor, no capability hook, no touch screen of phone or
\* tablet width.
NoSignals(h) ==
  /\ h.userAgent \in {UA_Garbage, UA_Empty}
  /\ h.vendor = ""
  /\ \A f \in DOMAIN ApiNone : h[f] = ApiNone[f]
  /\ ~(hasTouch(h) /\ WidthAtMost(h.innerWidth, 1024))

\* C13: on a host without signals detectBrowser() raises nothing, no
\* extractor produces a candidate, and the result has browser 'Unknown',
\* browserVersion 'Unknown', confidence 0, no detectionMethods, isDesktop
\* true, isMobile and isTablet false.
C13_UnresolvedLabel ==
  (call.op = "detectBrowser" /\ NoSignals(host)) =>
    /\ ~call.threw
    /\ call.run.methodResults = << >>
    /\ call.ret.browser = "Unknown"
    /\ call.ret.browserVersion = "Unknown"
    /\ call.ret.confidence = 0
    /\ call.ret.detectionMethods = << >>
    /\ call.ret.isDesktop /\ ~call.ret.isMobile /\ ~call.ret.isTablet

\* A classification of the garbage user agent, which carries a version
\* number no label claims, on a host whose style probe raises.
C13_Witness ==
  /\ Classified(call) /\ NoSignals(host)
  /\ host.userAgent = UA_Garbage
  /\ host.probeFailAt = "appendChild"
  /\ call.ret.browserVersion = "Unknown"


\* A host whose user agent holds the 'chrome' and the 'edg' token and whose
\* vendor is the empty string.
ChromeEdgTokens(h) ==
  /\ h.userAgent \in UserAgents
  /\ includes(toLowerCase(h.userAgent), "chrome")
  /\ includes(toLowerCase(h.userAgent), "edg")
  /\ h.vendor = ""
FirefoxToken(h) ==
  \/ includes(toLowerCase(h.userAgent), "firefox")
  \/ includes(toLowerCase(h.userAgent), "fxios")
CandidateOf(method, browser) ==
  \E i \in DOMAIN Candidates :
    Candidates[i].method = method /\ Candidates[i].browser = browser
ScenarioA ==
  /\ ~call.threw
  /\ ~call.hit =>
       /\ CandidateOf("vendorDetection", "Edge")
       /\ CandidateOf("userAgentDetection", "Edge")
       /\ CountOf("Edge") >= 2
  /\ call.ret.browser = "Edge"

\* C14 as stated: with the 'chrome' and the 'edg' token in the user agent and
\* an empty vendor, vendorDetection and userAgentDetection both yield Edge
\* and detectBrowser() returns Edge, whatever the capability hooks.
C14_EdgeForChromeEdg ==
  (call.op = "detectBrowser" /\ ChromeEdgTokens(host)) => ScenarioA

\* C14: the same for the user agents that hold neither the 'firefox' nor the
\* 'fxios' token, which userAgentDetection looks for before 'edg'.
C14_EdgeForChromeEdgNoFirefox ==
  (call.op = "detectBrowser" /\ ChromeEdgTokens(host) /\ ~FirefoxToken(host))
    => ScenarioA

\* The Chrome runtime hook is present, the style probe raises: the candidates
\* are Chrome, Edge, Edge and the result is Edge.
C14_Witness ==
  /\ Classified(call) /\ ChromeEdgTokens(host) /\ ~FirefoxToken(host)
  /\ host.chromeRuntime /\ host.probeFailAt = "appendChild"
  /\ Len(Candidates) = 3 /\ Candidates[1].browser = "Chrome"
  /\ call.ret.browser = "Edge"


(***************************************************************************)
(* Properties of the resolvers (Spec)                                      *)
(***************************************************************************)

\* The dotted version that follows the first 'Chrome/' of a user agent: the
\* longest run of digits and dots.
Least(S) == CHOOSE x \in S : \A y \in S : x <= y
ChromeTokenAt(ua) == { i \in 1..Len(ua) : StartsAt(ua, i, "Chrome/") }
DottedEnd(s, j) ==
  Greatest({j - 1} \cup
           { e \in j..Len(s) : \A k \in j..e : IsDigit(s, k) \/ IsChar(s, k, ".") })
DottedVersionAfterChrome(ua) ==
  SubSeq(ua, Least(ChromeTokenAt(ua)) + 7, DottedEnd(ua, Least(ChromeTokenAt(ua)) + 7))

\* C15: without a brand list, getBrowserVersion('Chrome') on a user agent
\* that holds 'Chrome/' followed by a dotted version returns that version in
\* full, all four parts of 120.0.0.0 included.
C15_ChromeVersionInFull ==
  ( /\ call.op = "getBrowserVersion" /\ call.arg = "Chrome" /\ ~call.threw
    /\ ~host.hasBrands
    /\ host.userAgent \in UserAgents
    /\ ChromeTokenAt(host.userAgent) # {} )
    => call.strs = << DottedVersionAfterChrome(host.userAgent) >>


\* The tokens of the mobile operating systems in a user agent.
AndroidToken(ua) == includes(toLowerCase(ua), "android")
IOSToken(ua) ==
  \/ includes(toLowerCase(ua), "iphone")
  \/ includes(toLowerCase(ua), "ipad")
  \/ includes(toLowerCase(ua), "ipod")

\* C16: getOSInfo() returns os 'Android' with an osVersion that holds
\* 'Android' for every user agent with an Android token, and os 'iOS' with
\* an osVersion that holds 'iOS' for every user agent with an iphone, ipad
\* or ipod token, the user agents that also hold 'Linux' or 'like Mac OS X'
\* included.
C16_MobileOSFamilies ==
  (call.op = "getOSInfo" /\ ~call.threw /\ host.userAgent \in UserAgents) =>
    /\ AndroidToken(host.userAgent) =>
         call.strs[1] = "Android" /\ includesImpl(call.strs[2], "Android")
    /\ IOSToken(host.userAgent) =>
         call.strs[1] = "iOS" /\ includesImpl(call.strs[2], "iOS")


\* C17: getBrowserVersion(label) returns a string (a version or 'Unknown'),
\* and the browserVersion, engineVersion, os and osVersion of every result of
\* detectBrowser() are strings, never undefined, also when the entries of the
\* brand list carry no version.
C17_NoUndefinedFields ==
  /\ (call.op = "getBrowserVersion" /\ ~call.threw) => call.strs[1] # Undefined
  /\ Returned(call) =>
       \A f \in {"browserVersion", "engineVersion", "os", "osVersion"} :
         call.ret[f] # Undefined


\* C18: the platform field of every result of detectBrowser() is the
\* platform type of the client, 'Desktop', 'Mobile' or 'Tablet', in line with
\* the flags: 'Desktop' when isDesktop is true, 'Mobile' or 'Tablet' only
\* when the flag of that name is true.
C18_PlatformField ==
  Returned(call) =>
    /\ call.ret.platform \in {"Desktop", "Mobile", "Tablet"}
    /\ call.ret.isDesktop => call.ret.platform = "Desktop"
    /\ call.ret.platform = "Mobile" => call.ret.isMobile
    /\ call.ret.platform = "Tablet" => call.ret.isTablet


\* C19: while the cache is occupied, detectBrowser() returns the stored
\* result and runs no extractor, whatever the host and the clock have become;
\* the entry is what was computed from the host and the clock at the miss that
\* stored it, and no step but clearCache() changes or removes it.
C19_NoExpiry ==
  [][ /\ (cacheHas(cache) /\ call'.op = "detectBrowser") =>
           /\ ~call'.threw
           /\ call'.ret = MapGet(cache, cacheKey)
           /\ call'.run = NoRun
           /\ cache' = cache
      /\ (~cacheHas(cache) /\ cacheHas(cache')) =>
           MapGet(cache', cacheKey)
             = BuildResult(host, MapGet(cache', cacheKey).ref, now)
      /\ (cacheHas(cache) /\ call'.op # "clearCache") => cache' = cache ]_vars

\* The host was exchanged and the clock advanced after the result was
\* stored, and detectBrowser() still returned the stored object.
C19_Witness ==
  /\ call.op = "detectBrowser" /\ call.hit
  /\ call.ret.userAgent # host.userAgent
  /\ call.ret.timestamp < now
  /\ call.ret = MapGet(cache, cacheKey)


(***************************************************************************)
(* Properties of the capability extractor (SpecClassify)                   *)
(***************************************************************************)

\* The candidate of the first check that succeeds, in the order Firefox
\* install hook, Chrome runtime hook, Safari push object, brand list with
\* 'Microsoft Edge', Opera version object, document-mode flag; << >> if none
\* does.
FirstHook(h) ==
  IF h.InstallTrigger THEN << "Firefox", 95 >>
  ELSE IF h.chromeRuntime THEN << "Chrome", 95 >>
  ELSE IF h.safariPush THEN << "Safari", 95 >>
  ELSE IF h.hasBrands /\ hasEdge(h.brands) THEN << "Edge", 95 >>
  ELSE IF h.operaVersion THEN << "Opera", 90 >>
  ELSE IF h.documentMode THEN << "Internet Explorer", 95 >>
  ELSE << >>

\* The candidate apiDetection contributed to the last classification.
ApiCandidate ==
  IF \E i \in DOMAIN Candidates : Candidates[i].method = "apiDetection"
  THEN LET c == Candidates[CHOOSE i \in DOMAIN Candidates :
                             Candidates[i].method = "apiDetection"]
       IN << c.browser, c.confidence >>
  ELSE << >>

\* C20: apiDetection returns the candidate of the first hook that is present
\* in that order; so without the Firefox, Chrome and Safari hooks and without
\* 'Microsoft Edge' in the brand list, be the list absent or present, an
\* Opera version object yields Opera at 0.9 and otherwise a document-mode
\* flag yields Internet Explorer at 0.95.
C20_ApiPriority ==
  (call.op = "detectBrowser" /\ ~call.hit) => ApiCandidate = FirstHook(host)


(***************************************************************************)
(* Properties of the vendor, user-agent and style extractors               *)
(***************************************************************************)

\* The candidate an extractor contributed to the last classification,
\* << >> if it contributed none.
CandidateFrom(method) ==
  IF \E i \in DOMAIN Candidates : Candidates[i].method = method
  THEN LET c == Candidates[CHOOSE i \in DOMAIN Candidates : Candidates[i].method = method]
       IN << c.browser, c.confidence >>
  ELSE << >>

\* The extractors have run on a host with a user agent and an empty vendor.
RanOnEmptyVendor ==
  /\ call.op = "detectBrowser" /\ ~call.hit
  /\ host.userAgent \in UserAgents
  /\ host.vendor = ""
HasToken(token) == includes(toLowerCase(host.userAgent), token)
AndroidChromeSafari == HasToken("android") /\ HasToken("chrome") /\ HasToken("safari")

\* C21 as stated: with an empty vendor, 'edg' or 'edge' in the user agent
\* makes vendorDetection return Edge at 0.8, and 'android', 'chrome' and
\* 'safari' without 'edg' make it return Edge at 0.7.
C21_EmptyVendorEdgeAt80 ==
  RanOnEmptyVendor =>
    /\ (HasToken("edg") \/ HasToken("edge")) =>
         CandidateFrom("vendorDetection") = << "Edge", 80 >>
    /\ (AndroidChromeSafari /\ ~HasToken("edg")) =>
         CandidateFrom("vendorDetection") = << "Edge", 70 >>

\* C21: with an empty vendor, 'edg' or 'edge' in the user agent makes
\* vendorDetection return Edge at 0.9, the confidence of its leading test for
\* 'edg', and 'android', 'chrome' and 'safari' without 'edg' make it return
\* Edge at 0.7.
C21_EmptyVendorEdgeAt90 ==
  RanOnEmptyVendor =>
    /\ (HasToken("edg") \/ HasToken("edge")) =>
         CandidateFrom("vendorDetection") = << "Edge", 90 >>
    /\ (AndroidChromeSafari /\ ~HasToken("edg")) =>
         CandidateFrom("vendorDetection") = << "Edge", 70 >>

\* The legacy Edge user agent ('Edge/18') with an empty vendor: Edge at 0.9.
C21_Witness ==
  /\ RanOnEmptyVendor /\ HasToken("edge")
  /\ host.userAgent = UA_EdgeLegacy
  /\ CandidateFrom("vendorDetection") = << "Edge", 90 >>


\* C22: for a user agent with 'android', 'chrome' and 'safari', without a
\* Firefox token, 'edg', an Opera token or an Internet Explorer token, and
\* with an empty vendor, userAgentDetection returns Edge at 0.8.
C22_AndroidWebViewRule ==
  ( /\ RanOnEmptyVendor /\ AndroidChromeSafari
    /\ \A token \in {"firefox", "fxios", "edg", "opr", "opera", "msie", "trident"} :
         ~HasToken(token) )
    => CandidateFrom("userAgentDetection") = << "Edge", 80 >>


(***************************************************************************)
(* Properties of the version, device and engine resolvers (Spec)           *)
(***************************************************************************)

\* The entries of a brand list that answer for a label.
AnswersFor(entry, browser) ==
  \/ toLowerCase(entry.brand) = toLowerCase(browser)
  \/ browser = "Edge" /\ entry.brand = "Microsoft Edge"
  \/ browser = "Chrome" /\ entry.brand = "Google Chrome"
MatchingEntries(h, browser) ==
  IF h.hasBrands
  THEN { i \in DOMAIN h.brands : AnswersFor(h.brands[i], browser) }
  ELSE {}
WithoutBrands(h) == [h EXCEPT !.hasBrands = FALSE, !.brands = << >>]

\* C23: when the brand list has an entry that answers for the label,
\* getBrowserVersion(label) returns the version of the first such entry and
\* raises nothing, whatever the user agent is; when it has none, the call
\* ends as it does on the same host without a brand list.
C23_BrandListAuthoritative ==
  call.op = "getBrowserVersion" =>
    IF MatchingEntries(host, call.arg) # {}
    THEN /\ ~call.threw
         /\ call.strs = << host.brands[Least(MatchingEntries(host, call.arg))].version >>
    ELSE /\ call.threw = VersionThrows(WithoutBrands(host), call.arg)
         /\ ~call.threw =>
              call.strs = << getBrowserVersion(WithoutBrands(host), call.arg) >>

\* Two entries answer for Chrome, 'Google Chrome' before 'Chrome': the
\* version of the first is returned, not the one of the user agent.
C23_Witness ==
  /\ call.op = "getBrowserVersion" /\ call.arg = "Chrome"
  /\ Cardinality(MatchingEntries(host, "Chrome")) = 2
  /\ call.strs = << "121" >>
  /\ getBrowserVersion(WithoutBrands(host), "Chrome") = "120.0.0"


\* The user agent of the host holds no mobile and no tablet keyword.
NoDeviceKeyword(h) ==
  /\ h.userAgent \in UserAgents
  /\ ~SomeKeyword(mobileKeywords, toLowerCase(h.userAgent))
  /\ ~SomeKeyword(tabletKeywords, toLowerCase(h.userAgent))
HasWidth(h) == h.innerWidth # NoWidth

\* C24: for a user agent without mobile and tablet keyword, with touch
\* capability the mobile flag holds exactly when the width is at most 768 and
\* the tablet flag exactly when it is above 768 and at most 1024, so never
\* both and neither above 1024; without touch capability both are false for
\* every width.  (detectBrowser() stores detectMobile() and detectTablet().)
C24_ViewportThresholds ==
  (Returned(call) /\ NoDeviceKeyword(host)) =>
    IF hasTouch(host)
    THEN /\ call.ret.isMobile <=> (HasWidth(host) /\ host.innerWidth <= 768)
         /\ call.ret.isTablet <=>
              (HasWidth(host) /\ host.innerWidth > 768 /\ host.innerWidth <= 1024)
         /\ ~(call.ret.isMobile /\ call.ret.isTablet)
         /\ (HasWidth(host) /\ host.innerWidth > 1024) =>
              (~call.ret.isMobile /\ ~call.ret.isTablet)
    ELSE ~call.ret.isMobile /\ ~call.ret.isTablet

\* A touch screen exactly 768 wide under a user agent without keyword:
\* mobile, not tablet.
C24_Witness ==
  /\ Returned(call) /\ NoDeviceKeyword(host)
  /\ hasTouch(host) /\ host.innerWidth = 768
  /\ call.ret.isMobile /\ ~call.ret.isTablet


\* C25: getPlatform() returns 'Mobile' whenever detectMobile() holds, also
\* when detectTablet() holds as well, 'Tablet' exactly when detectTablet()
\* holds and detectMobile() does not, 'Desktop' exactly when neither holds.
C25_DeviceClassOrder ==
  (call.op = "getPlatform" /\ ~call.threw) =>
    /\ call.strs \in { << "Mobile" >>, << "Tablet" >>, << "Desktop" >> }
    /\ call.strs = << "Mobile" >> <=> detectMobile(host)
    /\ call.strs = << "Tablet" >> <=> (detectTablet(host) /\ ~detectMobile(host))
    /\ call.strs = << "Desktop" >> <=> (~detectTablet(host) /\ ~detectMobile(host))

\* The iPad user agent holds 'mobile' and 'ipad': both detectors hold and
\* the platform is 'Mobile'.
C25_Witness ==
  /\ call.op = "getPlatform" /\ ~call.threw
  /\ detectMobile(host) /\ detectTablet(host)
  /\ call.strs = << "Mobile" >>


\* C26: when a step of the style probe raises (creating the element,
\* appending it, setting or reading a prefixed property, removing it),
\* cssDetection raises nothing and yields no candidate, whichever step it was
\* and whatever had been found before.
C26_ProbeFailureNoCandidate ==
  (call.op = "detectBrowser" /\ ~call.hit /\ host.probeFailAt # "none") =>
    /\ "cssDetection" \in { call.run.ran[i] : i \in DOMAIN call.run.ran }
    /\ "cssDetection" \notin call.run.failed
    /\ CandidateFrom("cssDetection") = << >>


(***************************************************************************)
(* Properties of the result as a whole                                     *)
(***************************************************************************)

\* C27: in every result of detectBrowser(), browser is 'Unknown' iff
\* confidence is 0 iff detectionMethods is empty; and when an extractor
\* produced a candidate, the label is not 'Unknown', the confidence is
\* positive and a contributor is listed.
C27_UnknownAllOrNothing ==
  Returned(call) =>
    /\ call.ret.browser = "Unknown" <=> call.ret.confidence = 0
    /\ call.ret.confidence = 0 <=> call.ret.detectionMethods = << >>
    /\ (~call.hit /\ Candidates # << >>) =>
         /\ call.ret.browser # "Unknown"
         /\ call.ret.confidence > 0
         /\ call.ret.detectionMethods # << >>

\* One candidate only, from the style probe: it is the result.
C27_Witness ==
  /\ Classified(call)
  /\ Len(Candidates) = 1
  /\ call.ret.browser # "Unknown"
  /\ call.ret.confidence = 70
  /\ call.ret.detectionMethods = << "cssDetection" >>


\* C28: in every result of detectBrowser() engineVersion equals
\* browserVersion, whatever the label and the user agent: the fallback on
\* the engine's own token (blink/, gecko/, webkit/, trident/) never changes
\* it.
C28_EngineVersionIsBrowserVersion ==
  Returned(call) => call.ret.engineVersion = call.ret.browserVersion

\* Safari on its desktop user agent, which holds 'AppleWebKit/605.1.15': the
\* engine version is the browser's, 17.0.
C28_Witness ==
  /\ Classified(call)
  /\ host.userAgent = UA_SafariDesktop
  /\ call.ret.browser = "Safari" /\ call.ret.engine = "WebKit"
  /\ call.ret.browserVersion = "17.0" /\ call.ret.engineVersion = "17.0"


(***************************************************************************)
(* Properties of failing calls and of getCompleteInfo (Spec)               *)
(***************************************************************************)

\* C29: a detectBrowser() call that ends with an exception has run the
\* extractors on an empty cache and leaves the cache empty, and a
\* detectBrowser() call that follows it runs the extractors again.
C29_CacheUnchangedOnFailure ==
  [][ /\ (call'.op = "detectBrowser" /\ call'.threw) =>
           /\ cache = EmptyMap
           /\ cache' = cache
           /\ call'.run.ran = detectionMethods
      /\ (call.op = "detectBrowser" /\ call.threw /\ call'.op = "detectBrowser") =>
           /\ ~call'.hit
           /\ call'.run.ran = detectionMethods ]_vars

\* A result had been cached and cleared, then detectBrowser() raised on a
\* host without user agent: the cache is empty.
C29_Witness ==
  /\ call.op = "detectBrowser" /\ call.threw
  /\ host.userAgent = Undefined
  /\ nextRef >= 1
  /\ MapSize(cache) = 0


\* The record getCompleteInfo() returned agrees with itself: the platform
\* with the flags, and the version, engine and operating system with the
\* detection its label comes from, which is the one the cache holds.
CompleteInfoConsistent ==
  (call.op = "getCompleteInfo" /\ ~call.threw) =>
    /\ call.ret.platform = "Mobile" <=> call.ret.isMobile
    /\ call.ret.platform = "Tablet" <=> (call.ret.isTablet /\ ~call.ret.isMobile)
    /\ call.ret.platform = "Desktop" <=> call.ret.isDesktop
    /\ cacheHas(cache)
    /\ call.ret.browser = MapGet(cache, cacheKey).browser
    /\ \A f \in {"browserVersion", "engine", "os", "osVersion"} :
         call.ret[f] = MapGet(cache, cacheKey)[f]

\* C30: after any sequence of operations and host changes the record
\* getCompleteInfo() returns is consistent (platform with flags; version,
\* engine and operating system from the signals its label comes from), and
\* getCompleteInfo() fills an empty cache and never changes a cached result.
C30_CompleteInfoConsistency ==
  /\ []CompleteInfoConsistent
  /\ [][ call'.op = "getCompleteInfo" =>
           /\ cacheHas(cache) => cache' = cache
           /\ (~cacheHas(cache) /\ ~call'.threw) => cacheHas(cache') ]_vars

====
